---- MODULE Spec2Model ----
(***************************************************************************)
(* Model of src/mta.py: the poll loop of main() and the stop-time scan of  *)
(* find_trips_for_route().                                                 *)
(*                                                                         *)
(* Two specifications share the module:                                    *)
(*   Spec        - the poll loop of main() (one action per loop step);     *)
(*   ExtractSpec - find_trips_for_route() stepped through its two loops on *)
(*                 every feed up to MaxUpdates x MaxEvents.                *)
(*                                                                         *)
(* Times are unix seconds.  An unset protobuf time reads as 0, as          *)
(* stop_time.arrival.time does.  Python None is the empty tuple <<>> and   *)
(* a number n is <<n>> where a variable may hold either.                   *)
(* total_min and leave_in are kept exactly, as multiples of 1/60 minute    *)
(* (the numerator of the division by 60 in lines 195-196).                 *)
(*                                                                         *)
(* Outside the model: the LED matrix (setup_matrix, draw_routes), the text *)
(* of the printed lines (report keeps their kind and route only) and the   *)
(* Trip fields board_str, arrive_str and color, which no decision of the   *)
(* loop reads.                                                             *)
(***************************************************************************)
EXTENDS Integers, Sequences, FiniteSets, TLC

\* ---------------------------------------------------------------- bounds
MaxEntities == 2
MaxUpdates == 2
MaxEvents == 2
MaxCycles == 2

\* ------------------------------------------------------ program constants
SecondsPerMinute == 60
DefaultMaxArrivalMinutes == 60

\* ------------------------------------------------- stop-time extraction
None == <<>>

Truthy(x) == x # None /\ x[1] # 0

\* lines 68-74: one iteration of the inner loop over stop_time_update
scan_stop_time(acc, stop_time, origin_stop, dest_stop) ==
    IF stop_time.stop_id = origin_stop
    THEN [acc EXCEPT !.origin_time = <<stop_time.arrival>>]
    ELSE IF stop_time.stop_id = dest_stop
         THEN [acc EXCEPT !.dest_time = <<stop_time.arrival>>]
         ELSE acc

RECURSIVE scan_stop_times(_, _, _, _)
scan_stop_times(acc, stops, origin_stop, dest_stop) ==
    IF stops = <<>> THEN acc
    ELSE scan_stop_times(scan_stop_time(acc, Head(stops), origin_stop, dest_stop),
                         Tail(stops), origin_stop, dest_stop)

\* line 76 (mutant: non-strict comparison)
keep_trip_nonstrict(origin_time, dest_time) ==
    Truthy(origin_time) /\ Truthy(dest_time) /\ origin_time[1] <= dest_time[1]

\* line 76
keep_trip(origin_time, dest_time) ==
    Truthy(origin_time) /\ Truthy(dest_time) /\ origin_time[1] < dest_time[1]

\* lines 77-82
make_trip(trip_update, origin_time, dest_time) ==
    [trip_id |-> trip_update.trip_id, route_id |-> trip_update.route_id,
     origin_time |-> origin_time[1], dest_time |-> dest_time[1]]

\* lines 60-82: the body of the loop over feed.entity, for one entity
extract_entity(entity, origin_stop, dest_stop) ==
    IF ~entity.has_trip_update THEN <<>>
    ELSE LET acc == scan_stop_times([origin_time |-> None, dest_time |-> None],
                                    entity.stop_time_update, origin_stop, dest_stop)
         IN IF keep_trip(acc.origin_time, acc.dest_time)
            THEN <<make_trip(entity, acc.origin_time, acc.dest_time)>>
            ELSE <<>>

RECURSIVE find_trips_for_route(_, _, _)
find_trips_for_route(feed, origin_stop, dest_stop) ==
    IF feed = <<>> THEN <<>>
    ELSE extract_entity(Head(feed), origin_stop, dest_stop)
         \o find_trips_for_route(Tail(feed), origin_stop, dest_stop)

\* ------------------------------------------------------------ inputs
\* config.json routes (line 164): name, feed_id, stops, walking minutes
RouteA == [name |-> "A", feed_id |-> "f1", origin_stop |-> "o1", dest_stop |-> "d1",
           walk_to_station_min |-> 1, walk_to_office_min |-> 2]
RouteB == [name |-> "B", feed_id |-> "f1", origin_stop |-> "o1", dest_stop |-> "d1",
           walk_to_station_min |-> 0, walk_to_office_min |-> 1]
RouteC == [name |-> "C", feed_id |-> "f2", origin_stop |-> "o1", dest_stop |-> "d1",
           walk_to_station_min |-> 1, walk_to_office_min |-> 2]
RoutePool == {RouteA, RouteB, RouteC}
FeedIds == {r.feed_id : r \in RoutePool}

\* every order of every non-empty choice of distinct routes
RouteLists ==
    {rs \in UNION {[1..n -> RoutePool] : n \in 1..Cardinality(RoutePool)} :
        \A i, j \in DOMAIN rs : i # j => rs[i] # rs[j]}

\* "max_arrival_minutes" is optional in config.json (line 204)
Thresholds == {None, <<12>>, <<100>>}
Configs == {[routes |-> rs, max_arrival_minutes |-> m] : rs \in RouteLists, m \in Thresholds}

\* time.time() at the top of a cycle (line 157)
NowSet == {900, 901}

StopTime(stop_id, arrival, departure) ==
    [stop_id |-> stop_id, arrival |-> arrival, departure |-> departure]
TripUpdate(trip_id, stops) ==
    [has_trip_update |-> TRUE, trip_id |-> trip_id, route_id |-> "R",
     stop_time_update |-> stops]

\* trip updates a fetched feed of the poll loop is made of: one that boards
\* at 960 (= 900 + 1 min walk) and one that arrives more than 60 min later
TripPool ==
    {TripUpdate("t1", <<StopTime("o1", 960, 0), StopTime("d1", 1500, 0)>>),
     TripUpdate("t2", <<StopTime("o1", 2000, 0), StopTime("d1", 5000, 0)>>)}
Feeds == UNION {[1..n -> TripPool] : n \in 0..MaxEntities}

\* -------------------------------------------------------- route evaluation
\* lines 178-179
earliest_board(route, now_) == now_ + route.walk_to_station_min * SecondsPerMinute

\* line 180 (mutant: a train leaving exactly at the earliest instant is missed)
catchable_trips_strict(trips_, earliest) ==
    LET ok(t) == t.origin_time > earliest IN SelectSeq(trips_, ok)

\* line 180
catchable_trips(trips_, earliest) ==
    LET ok(t) == t.origin_time >= earliest IN SelectSeq(trips_, ok)

\* lines 186-200: the Trip built for one catchable train
make_Trip(route, t, now_) ==
    LET walk_to_station == route.walk_to_station_min * SecondsPerMinute
        walk_to_office == route.walk_to_office_min * SecondsPerMinute
        arrival_at_office == t.dest_time + walk_to_office
    IN [route_name |-> route.name,
        arrival_at_office |-> arrival_at_office,
        total_min |-> arrival_at_office - now_,
        leave_in |-> t.origin_time - walk_to_station - now_]

\* lines 182-184 (mutant: "no trains" becomes a 99-minute placeholder entry)
no_trains_placeholder(route, now_) ==
    <<[route_name |-> route.name, arrival_at_office |-> now_ + 99 * SecondsPerMinute,
       total_min |-> 99 * SecondsPerMinute, leave_in |-> 99 * SecondsPerMinute]>>

\* lines 182-184: "No trains" is printed and the route adds nothing
no_trains_entries(route, now_) == <<>>

\* lines 182-200
route_entries(route, catchable_, now_) ==
    IF catchable_ = <<>> THEN no_trains_entries(route, now_)
    ELSE [i \in 1..Len(catchable_) |-> make_Trip(route, catchable_[i], now_)]

\* ------------------------------------------------------------- ranking
\* list.sort is stable: an element goes after every element whose key is
\* not greater (mutant: before the elements of equal key)
insert_before_equal(sorted, t) ==
    LET k == Cardinality({i \in 1..Len(sorted) :
                            sorted[i].arrival_at_office < t.arrival_at_office})
    IN SubSeq(sorted, 1, k) \o <<t>> \o SubSeq(sorted, k + 1, Len(sorted))

insert_sorted(sorted, t) ==
    LET k == Cardinality({i \in 1..Len(sorted) :
                            sorted[i].arrival_at_office <= t.arrival_at_office})
    IN SubSeq(sorted, 1, k) \o <<t>> \o SubSeq(sorted, k + 1, Len(sorted))

\* line 203
RECURSIVE sort_from(_, _)
sort_from(sorted, rest) ==
    IF rest = <<>> THEN sorted
    ELSE sort_from(insert_sorted(sorted, Head(rest)), Tail(rest))

sort_by_arrival(trips_) == sort_from(<<>>, trips_)

\* line 204: config.get("max_arrival_minutes", 60)
max_arrival_min(cfg) ==
    IF cfg.max_arrival_minutes = None THEN DefaultMaxArrivalMinutes
    ELSE cfg.max_arrival_minutes[1]

\* line 205 (mutant: an entry exactly at the threshold is dropped)
filter_max_arrival_strict(trips_, max_min) ==
    LET ok(t) == t.total_min < max_min * SecondsPerMinute IN SelectSeq(trips_, ok)

\* line 205
filter_max_arrival(trips_, max_min) ==
    LET ok(t) == t.total_min <= max_min * SecondsPerMinute IN SelectSeq(trips_, ok)

\* line 210 (mutant: the last entry is taken)
best_of_last(trips_) ==
    IF trips_ # <<>> THEN <<trips_[Len(trips_)].route_name>> ELSE None

\* line 210
best_of(trips_) ==
    IF trips_ # <<>> THEN <<trips_[1].route_name>> ELSE None

\* --------------------------------------------------------------- state
VARIABLES
    config,        \* load_config() result (line 139)
    pc,            \* position of main(): "start", "routes", "sleep", "crashed"
    cycle,         \* number of the current poll cycle (1 = first)
    now,           \* line 157
    feed_cache,    \* line 154: feed_id -> [feed, fetched_in]
    route_idx,     \* position of the loop of line 164 (1-based)
    feed_trips,    \* line 176
    catchable,     \* line 180
    all_trips,     \* lines 162, 192, 203, 205
    best_option,   \* line 210
    report,        \* lines printed in this cycle: <<kind, route name>>
    fetches,       \* history: fetch_feed calls of this cycle per feed_id
    log,           \* history: per route handled in this cycle, what it produced
    scan_pc,       \* position of find_trips_for_route()
    entities_seen, \* entities of feed.entity iterated so far
    scanned,       \* history: stop-time events of the current trip_update so far
    origin_time,   \* line 64, 71
    dest_time,     \* line 65, 74
    trips,         \* line 57, 77
    trips_before   \* history: trips when the current entity was taken

loop_vars == <<config, pc, cycle, now, feed_cache, route_idx, feed_trips, catchable,
               all_trips, best_option, report, fetches, log>>
scan_vars == <<scan_pc, entities_seen, scanned, origin_time, dest_time, trips,
               trips_before>>
vars == <<loop_vars, scan_vars>>

EmptyCache == [f \in {} |-> None]
NoFetches == [f \in FeedIds |-> 0]

\* ------------------------------------------------------------ poll loop
\* lines 139-154
LoopInit ==
    /\ config \in Configs
    /\ pc = "start"
    /\ cycle = 0
    /\ now = 0
    /\ feed_cache = EmptyCache
    /\ route_idx = 1
    /\ feed_trips = <<>>
    /\ catchable = <<>>
    /\ all_trips = <<>>
    /\ best_option = None
    /\ report = <<>>
    /\ fetches = NoFetches
    /\ log = <<>>

LoopIdle ==
    /\ config = [routes |-> <<RouteA>>, max_arrival_minutes |-> None]
    /\ pc = "idle"
    /\ cycle = 0
    /\ now = 0
    /\ feed_cache = EmptyCache
    /\ route_idx = 1
    /\ feed_trips = <<>>
    /\ catchable = <<>>
    /\ all_trips = <<>>
    /\ best_option = None
    /\ report = <<>>
    /\ fetches = NoFetches
    /\ log = <<>>

\* line 158 (mutant: the cache of the previous cycle is kept)
keep_cache(cache) == cache

\* line 158: feed_cache.clear()
clear_cache(cache) == EmptyCache

\* lines 157-162.  The names bound inside the loop body (feed_trips,
\* catchable, best_option) are assigned again before any read of the new
\* cycle; they start each cycle from their initial values.
StartCycle ==
    /\ pc = "start"
    /\ cycle < MaxCycles
    /\ cycle' = cycle + 1
    /\ now' \in NowSet
    /\ feed_cache' = clear_cache(feed_cache)
    /\ all_trips' = <<>>
    /\ route_idx' = 1
    /\ feed_trips' = <<>>
    /\ catchable' = <<>>
    /\ best_option' = None
    /\ report' = <<>>
    /\ fetches' = NoFetches
    /\ log' = <<>>
    /\ pc' = "routes"
    /\ UNCHANGED <<config, scan_vars>>

CurrentRoute == config.routes[route_idx]

\* lines 171-173 (mutant: the exception leaves main())
fetch_error_raises == "crashed"

\* lines 171-173: the exception is caught and the loop continues
after_fetch_error == "routes"

\* lines 175-200 for the current route, on the snapshot feed (source and
\* fetched_in record where the snapshot came from)
Evaluate(feed, source, fetched_in) ==
    LET route == CurrentRoute
        ft == find_trips_for_route(feed, route.origin_stop, route.dest_stop)
        c == catchable_trips(ft, earliest_board(route, now))
        entries == route_entries(route, c, now)
    IN /\ feed_trips' = ft
       /\ catchable' = c
       /\ all_trips' = all_trips \o entries
       /\ report' = IF c = <<>> THEN Append(report, <<"no_trains", route.name>>)
                    ELSE report
       /\ log' = Append(log, [route |-> route_idx,
                              status |-> IF c = <<>> THEN "no_trains" ELSE "ok",
                              source |-> source, fetched_in |-> fetched_in,
                              entries |-> entries])
       /\ route_idx' = route_idx + 1
       /\ UNCHANGED <<config, pc, cycle, now, best_option, scan_vars>>

\* lines 165-200, feed_id already in feed_cache
RouteCached ==
    /\ pc = "routes"
    /\ route_idx <= Len(config.routes)
    /\ CurrentRoute.feed_id \in DOMAIN feed_cache
    /\ Evaluate(feed_cache[CurrentRoute.feed_id].feed, "cached",
                feed_cache[CurrentRoute.feed_id].fetched_in)
    /\ UNCHANGED <<feed_cache, fetches>>

\* lines 165-200, fetch_feed returns a feed
RouteFetched ==
    /\ pc = "routes"
    /\ route_idx <= Len(config.routes)
    /\ CurrentRoute.feed_id \notin DOMAIN feed_cache
    /\ \E feed \in Feeds :
        /\ feed_cache' = (CurrentRoute.feed_id :> [feed |-> feed, fetched_in |-> cycle])
                         @@ feed_cache
        /\ Evaluate(feed, "fetched", cycle)
    /\ fetches' = [fetches EXCEPT ![CurrentRoute.feed_id] = @ + 1]

\* lines 165-173, fetch_feed raises
RouteFetchFailed ==
    /\ pc = "routes"
    /\ route_idx <= Len(config.routes)
    /\ CurrentRoute.feed_id \notin DOMAIN feed_cache
    /\ fetches' = [fetches EXCEPT ![CurrentRoute.feed_id] = @ + 1]
    /\ report' = Append(report, <<"error", CurrentRoute.name>>)
    /\ log' = Append(log, [route |-> route_idx, status |-> "error", source |-> "none",
                              fetched_in |-> 0, entries |-> <<>>])
    /\ route_idx' = route_idx + 1
    /\ pc' = after_fetch_error
    /\ UNCHANGED <<config, cycle, now, feed_cache, feed_trips, catchable, all_trips,
                   best_option, scan_vars>>

\* lines 203-216
Rank ==
    /\ pc = "routes"
    /\ route_idx > Len(config.routes)
    /\ LET ranked == filter_max_arrival(sort_by_arrival(all_trips), max_arrival_min(config))
           best == best_of(ranked)
       IN /\ all_trips' = ranked
          /\ best_option' = best
          /\ report' = IF best # None /\ best[1] # ""
                       THEN Append(report, <<"best", best[1]>>) ELSE report
    /\ pc' = "sleep"
    /\ UNCHANGED <<config, cycle, now, feed_cache, route_idx, feed_trips, catchable,
                   fetches, log, scan_vars>>

\* line 218, and back to line 156
Sleep ==
    /\ pc = "sleep"
    /\ pc' = "start"
    /\ UNCHANGED <<config, cycle, now, feed_cache, route_idx, feed_trips, catchable,
                   all_trips, best_option, report, fetches, log, scan_vars>>

Next == StartCycle \/ RouteCached \/ RouteFetched \/ RouteFetchFailed \/ Rank \/ Sleep

\* ------------------------------------- find_trips_for_route, step by step
\* the stop pair of the call, and the stop-time events a feed may carry
ScanOrigin == "o1"
ScanDest == "d1"
ScanStops == {"o1", "d1", "x"}
ScanArrivals == {0, 50, 100}
ScanDepartures == {0, 70}
ScanEvents == {StopTime(s, a, d) : s \in ScanStops, a \in ScanArrivals, d \in ScanDepartures}

\* line 57
ScanInit ==
    /\ scan_pc = "begin"
    /\ entities_seen = 0
    /\ scanned = <<>>
    /\ origin_time = None
    /\ dest_time = None
    /\ trips = <<>>
    /\ trips_before = <<>>

ScanIdle ==
    /\ scan_pc = "idle"
    /\ entities_seen = 0
    /\ scanned = <<>>
    /\ origin_time = None
    /\ dest_time = None
    /\ trips = <<>>
    /\ trips_before = <<>>

AtEntityLoop == scan_pc \in {"begin", "entity_done", "entity_skipped"}

\* lines 59-61: the next entity has no trip_update
SkipEntity ==
    /\ AtEntityLoop
    /\ entities_seen < MaxUpdates
    /\ entities_seen' = entities_seen + 1
    /\ scanned' = <<>>
    /\ trips_before' = trips
    /\ scan_pc' = "entity_skipped"
    /\ UNCHANGED <<origin_time, dest_time, trips, loop_vars>>

\* lines 59-65: the next entity has a trip_update
BeginEntity ==
    /\ AtEntityLoop
    /\ entities_seen < MaxUpdates
    /\ entities_seen' = entities_seen + 1
    /\ scanned' = <<>>
    /\ trips_before' = trips
    /\ origin_time' = None
    /\ dest_time' = None
    /\ scan_pc' = "stops"
    /\ UNCHANGED <<trips, loop_vars>>

\* lines 67-74: one stop_time of the trip_update
ScanStopTime ==
    /\ scan_pc = "stops"
    /\ Len(scanned) < MaxEvents
    /\ \E stop_time \in ScanEvents :
        LET acc == scan_stop_time([origin_time |-> origin_time, dest_time |-> dest_time],
                                  stop_time, ScanOrigin, ScanDest)
        IN /\ origin_time' = acc.origin_time
           /\ dest_time' = acc.dest_time
           /\ scanned' = Append(scanned, stop_time)
    /\ UNCHANGED <<scan_pc, entities_seen, trips, trips_before, loop_vars>>

\* lines 76-82: the trip_update has no more stop_times
EndEntity ==
    /\ scan_pc = "stops"
    /\ trips' = IF keep_trip(origin_time, dest_time)
                THEN Append(trips, make_trip([trip_id |-> entities_seen, route_id |-> "R"],
                                             origin_time, dest_time))
                ELSE trips
    /\ scan_pc' = "entity_done"
    /\ UNCHANGED <<entities_seen, scanned, origin_time, dest_time, trips_before, loop_vars>>

\* line 83
Return ==
    /\ AtEntityLoop
    /\ scan_pc' = "returned"
    /\ UNCHANGED <<entities_seen, scanned, origin_time, dest_time, trips, trips_before,
                   loop_vars>>

ScanNext == SkipEntity \/ BeginEntity \/ ScanStopTime \/ EndEntity \/ Return

\* ------------------------------------------------------ specifications
Init == LoopInit /\ ScanIdle
Spec == Init /\ [][Next]_vars

ExtractInit == ScanInit /\ LoopIdle
ExtractSpec == ExtractInit /\ [][ScanNext]_vars

\* ---------------------------------------------------------- properties
RouteOf(i) == config.routes[log[i].route]
EntriesOf(name) == {j \in DOMAIN all_trips : all_trips[j].route_name = name}
Reported(kind, name) == \E k \in DOMAIN report : report[k] = <<kind, name>>

C2_BestIsMinimal ==
    pc = "sleep" =>
        /\ \A i, j \in DOMAIN all_trips :
              i < j => all_trips[i].total_min <= all_trips[j].total_min
        /\ (best_option = None) <=> (all_trips = <<>>)
        /\ all_trips # <<>> =>
              \E i \in DOMAIN all_trips :
                  /\ best_option = <<all_trips[i].route_name>>
                  /\ \A j \in DOMAIN all_trips :
                        all_trips[i].total_min <= all_trips[j].total_min

C2_Witness ==
    /\ pc = "sleep"
    /\ Len(all_trips) >= 2
    /\ all_trips[1].total_min < all_trips[Len(all_trips)].total_min
    /\ all_trips[1].route_name # all_trips[Len(all_trips)].route_name
    /\ best_option = <<config.routes[Len(config.routes)].name>>

MinTotal == CHOOSE m \in {all_trips[j].total_min : j \in DOMAIN all_trips} :
                \A j \in DOMAIN all_trips : m <= all_trips[j].total_min
TiedRoutes ==
    {r \in DOMAIN config.routes :
        \E j \in DOMAIN all_trips :
            /\ all_trips[j].route_name = config.routes[r].name
            /\ all_trips[j].total_min = MinTotal}

\* C3: when entries of two or more routes share the minimal total time, the
\* best route is the one of them configured first.
C3_TieBreak ==
    (pc = "sleep" /\ all_trips # <<>> /\ Cardinality(TiedRoutes) >= 2) =>
        \E r \in TiedRoutes :
            /\ \A q \in TiedRoutes : r <= q
            /\ best_option = <<config.routes[r].name>>

C3_Witness ==
    /\ pc = "sleep"
    /\ all_trips # <<>>
    /\ Cardinality(TiedRoutes) >= 2
    /\ best_option = <<"C">>

LastRoute == RouteOf(Len(log))
LastEarliest == now + LastRoute.walk_to_station_min * SecondsPerMinute
LastCatchableIdx == {i \in DOMAIN feed_trips : feed_trips[i].origin_time >= LastEarliest}
NthOf(S, k) == CHOOSE i \in S : Cardinality({j \in S : j <= i}) = k

\* C4: once a route has been evaluated, catchable holds exactly the
\* extracted trips whose origin instant is at or after
\* now + 60 * walk_to_station_min, in feed order; a trip at exactly that
\* instant is kept and a trip one second earlier is not.
C4_CatchableWindow ==
    (log # <<>> /\ log[Len(log)].status # "error") =>
        /\ Len(catchable) = Cardinality(LastCatchableIdx)
        /\ \A k \in DOMAIN catchable : catchable[k] = feed_trips[NthOf(LastCatchableIdx, k)]
        /\ \A i \in DOMAIN feed_trips :
              /\ feed_trips[i].origin_time = LastEarliest =>
                    \E k \in DOMAIN catchable : catchable[k] = feed_trips[i]
              /\ feed_trips[i].origin_time = LastEarliest - 1 =>
                    \A k \in DOMAIN catchable : catchable[k] # feed_trips[i]

C4_Witness ==
    /\ log # <<>>
    /\ log[Len(log)].status = "ok"
    /\ Len(feed_trips) >= 2
    /\ feed_trips[1].origin_time > LastEarliest
    /\ feed_trips[2].origin_time = LastEarliest
    /\ Len(catchable) = 2

\* the other side of the boundary: a trip one second too early is left out
C4_TooEarlyReached ==
    /\ log # <<>>
    /\ log[Len(log)].status = "ok"
    /\ \E i \in DOMAIN feed_trips : feed_trips[i].origin_time = LastEarliest - 1
    /\ Len(catchable) < Len(feed_trips)

WithinLimit(t) == t.total_min <= max_arrival_min(config) * SecondsPerMinute

\* C6: a failed fetch never ends main(); at the end of a cycle every
\* configured route has been handled in order, a route whose fetch failed
\* has no entry and an error report, and every other route was evaluated
\* on its feed and each of its entries within the threshold is ranked.
C6_FetchFailureIsolated ==
    /\ pc # "crashed"
    /\ pc = "sleep" =>
        /\ Len(log) = Len(config.routes)
        /\ \A i \in DOMAIN log :
            /\ log[i].route = i
            /\ log[i].status = "error" =>
                  /\ EntriesOf(RouteOf(i).name) = {}
                  /\ Reported("error", RouteOf(i).name)
            /\ log[i].status # "error" =>
                  /\ RouteOf(i).feed_id \in DOMAIN feed_cache
                  /\ \A k \in DOMAIN log[i].entries :
                        WithinLimit(log[i].entries[k]) =>
                            \E j \in DOMAIN all_trips : all_trips[j] = log[i].entries[k]

C6_Witness ==
    /\ pc = "sleep"
    /\ \E i, j \in DOMAIN log :
        /\ i < j
        /\ log[i].status = "error"
        /\ log[j].status = "ok"
        /\ RouteOf(i).feed_id # RouteOf(j).feed_id
        /\ best_option = <<RouteOf(j).name>>

Produced == UNION {{<<i, k>> : k \in DOMAIN log[i].entries} : i \in DOMAIN log}

\* C7 as stated: no entry of the final list exceeds a configured threshold,
\* and with no threshold configured every produced entry is in the list.
C7_NoThresholdKeepsAll ==
    pc = "sleep" =>
        /\ config.max_arrival_minutes # None =>
              \A j \in DOMAIN all_trips :
                  all_trips[j].total_min <= config.max_arrival_minutes[1] * SecondsPerMinute
        /\ config.max_arrival_minutes = None =>
              Len(all_trips) = Cardinality(Produced)

EffectiveLimit ==
    IF config.max_arrival_minutes = None THEN DefaultMaxArrivalMinutes
    ELSE config.max_arrival_minutes[1]

\* C7 as amended: no entry of the final list exceeds the threshold, which is
\* the configured one or 60 minutes when none is configured; the entries
\* kept are exactly the produced entries of at most that threshold.
C7_ThresholdOrDefault ==
    pc = "sleep" =>
        /\ \A j \in DOMAIN all_trips :
              all_trips[j].total_min <= EffectiveLimit * SecondsPerMinute
        /\ Len(all_trips) =
              Cardinality({p \in Produced :
                  log[p[1]].entries[p[2]].total_min <= EffectiveLimit * SecondsPerMinute})

C7_Witness ==
    /\ pc = "sleep"
    /\ config.max_arrival_minutes = None
    /\ all_trips # <<>>
    /\ Len(all_trips) < Cardinality(Produced)

\* C8 as stated: within one cycle no feed identifier is fetched twice.
C8_FetchedAtMostOnce ==
    \A f \in FeedIds : fetches[f] <= 1

\* C9: the cache is empty when the first route of a cycle is handled, every
\* cached snapshot was fetched in the current cycle, and so was every
\* snapshot a route of the cycle was evaluated on.
C9_CacheFresh ==
    /\ (pc = "routes" /\ route_idx = 1) => DOMAIN feed_cache = {}
    /\ \A f \in DOMAIN feed_cache : feed_cache[f].fetched_in = cycle
    /\ \A i \in DOMAIN log : log[i].status # "error" => log[i].fetched_in = cycle

C9_Witness ==
    /\ cycle >= 2
    /\ \E i, j \in DOMAIN log :
        /\ log[i].status = "error"
        /\ log[j].source = "cached"

\* the stop-time events of the current trip_update at a stop; the one
\* scanned last stands for the stop
EventsAt(stop) == {i \in DOMAIN scanned : scanned[i].stop_id = stop}
LastAt(stop) == scanned[CHOOSE i \in EventsAt(stop) : \A j \in EventsAt(stop) : j <= i]
HasBothStops == EventsAt(ScanOrigin) # {} /\ EventsAt(ScanDest) # {}

\* the instants find_trips_for_route reads are arrival times; 0 is "not set"
Qualifies ==
    /\ HasBothStops
    /\ LastAt(ScanOrigin).arrival # 0
    /\ LastAt(ScanDest).arrival # 0
    /\ LastAt(ScanOrigin).arrival < LastAt(ScanDest).arrival

\* C5: a trip_update adds exactly one trip, with its two instants, when it
\* has an event with an instant at both stops and the origin instant is
\* strictly less than the destination instant; any other record adds
\* nothing (origin 100, destination 50 adds nothing); every extracted trip
\* has origin_time < dest_time.
C5_OneTripPerValidUpdate ==
    /\ scan_pc = "entity_done" =>
          trips = IF Qualifies
                  THEN Append(trips_before,
                              [trip_id |-> entities_seen, route_id |-> "R",
                               origin_time |-> LastAt(ScanOrigin).arrival,
                               dest_time |-> LastAt(ScanDest).arrival])
                  ELSE trips_before
    /\ (scan_pc = "entity_done" /\ HasBothStops
            /\ LastAt(ScanOrigin).arrival = 100 /\ LastAt(ScanDest).arrival = 50) =>
          trips = trips_before
    /\ scan_pc = "entity_skipped" => trips = trips_before
    /\ \A k \in DOMAIN trips : trips[k].origin_time < trips[k].dest_time

C5_Witness ==
    /\ scan_pc = "entity_done"
    /\ Qualifies
    /\ Len(trips) = 2
    /\ trips[1].trip_id # trips[2].trip_id

\* the instants as C10 reads them: departure before arrival at the origin,
\* arrival before departure at the destination
PreferredOrigin ==
    IF LastAt(ScanOrigin).departure # 0 THEN LastAt(ScanOrigin).departure
    ELSE LastAt(ScanOrigin).arrival
PreferredDest ==
    IF LastAt(ScanDest).arrival # 0 THEN LastAt(ScanDest).arrival
    ELSE LastAt(ScanDest).departure

\* C10 as stated: the origin instant is the departure time of the origin
\* event when set and else its arrival time, the destination instant is
\* the arrival time of the destination event when set and else its
\* departure time, and a trip_update whose instants so read are in order
\* yields a trip.
C10_DeparturePreferred ==
    (scan_pc = "entity_done" /\ HasBothStops) =>
        /\ origin_time = <<PreferredOrigin>>
        /\ dest_time = <<PreferredDest>>
        /\ (PreferredOrigin # 0 /\ PreferredDest # 0 /\ PreferredOrigin < PreferredDest) =>
              trips = Append(trips_before,
                             [trip_id |-> entities_seen, route_id |-> "R",
                              origin_time |-> PreferredOrigin,
                              dest_time |-> PreferredDest])

====
